---- MODULE Spec2Model ----
(***************************************************************************)
(* A model of cfd.c: the damped 2D wave-equation heightfield simulator     *)
(* (argument parsing and validation in main, grid allocation,              *)
(* initialize_simulation, simulation_step with its pointer swap,           *)
(* height_to_char / display_grid, and the driver loop).                    *)
(*                                                                         *)
(* Numbers.  The C `float` is modelled by a reduced-precision format with  *)
(* the same special values: a finite value is an integer n standing for    *)
(* n/SCALE with |n| <= FLT_MAX, every arithmetic result is rounded to the  *)
(* nearest representable value (ties to even), a result beyond FLT_MAX     *)
(* overflows to +/-infinity, and NaN is produced and propagated as in      *)
(* IEEE 754 (inf - inf, 0 * inf; every comparison with NaN is false;       *)
(* fmaxf/fminf return the other argument when one is NaN).                 *)
(***************************************************************************)
EXTENDS Integers, Sequences, FiniteSets

\* ------------------------------------------------------------------------
\* The float format
\* ------------------------------------------------------------------------

\* Resolution of the format: the float 1.0f is the integer SCALE.
SCALE == 1000

\* Largest finite magnitude of the format (40.0).
FLT_MAX == 40000

PInf == FLT_MAX + 1
NInf == -(FLT_MAX + 1)
NaN  == FLT_MAX + 2

IsNaN(x)    == x = NaN
IsInf(x)    == x = PInf \/ x = NInf
IsFinite(x) == ~IsNaN(x) /\ ~IsInf(x)

\* A decimal literal of the source, given in thousandths (0.05f is Milli(50)).
Milli(n) == (n * SCALE) \div 1000

Abs(n) == IF n < 0 THEN -n ELSE n

Sign(n) == IF n < 0 THEN -1 ELSE IF n > 0 THEN 1 ELSE 0

\* p / d for d > 0, rounded to the nearest integer, ties to even.
RoundDiv(p, d) ==
    LET a == Abs(p)
        q == a \div d
        r == a % d
        m == IF 2 * r > d \/ (2 * r = d /\ q % 2 = 1) THEN q + 1 ELSE q
    IN  IF p < 0 THEN -m ELSE m

\* An exact (already rounded) result brought into the format: overflow to infinity.
Overflow(n) == IF n > FLT_MAX THEN PInf ELSE IF n < -FLT_MAX THEN NInf ELSE n

FNeg(a) == IF IsNaN(a) THEN NaN ELSE -a

FAdd(a, b) ==
    IF IsNaN(a) \/ IsNaN(b) THEN NaN
    ELSE IF IsInf(a) /\ IsInf(b) THEN (IF a = b THEN a ELSE NaN)
    ELSE IF IsInf(a) THEN a
    ELSE IF IsInf(b) THEN b
    ELSE Overflow(a + b)

FSub(a, b) == FAdd(a, FNeg(b))

FMul(a, b) ==
    IF IsNaN(a) \/ IsNaN(b) THEN NaN
    ELSE IF IsInf(a) \/ IsInf(b)
         THEN (IF a = 0 \/ b = 0 THEN NaN
               ELSE IF Sign(a) * Sign(b) > 0 THEN PInf ELSE NInf)
    ELSE Overflow(RoundDiv(a * b, SCALE))

FDiv(a, b) ==
    IF IsNaN(a) \/ IsNaN(b) THEN NaN
    ELSE IF IsInf(a) THEN (IF IsInf(b) THEN NaN
                           ELSE IF (a > 0) = (b >= 0) THEN PInf ELSE NInf)
    ELSE IF IsInf(b) THEN 0
    ELSE IF b = 0 THEN (IF a = 0 THEN NaN ELSE IF a > 0 THEN PInf ELSE NInf)
    ELSE Overflow(Sign(b) * RoundDiv(a * SCALE, Abs(b)))

\* Comparisons: false as soon as one side is NaN.
FLt(a, b) == ~IsNaN(a) /\ ~IsNaN(b) /\ a < b
FGt(a, b) == FLt(b, a)
FLe(a, b) == ~IsNaN(a) /\ ~IsNaN(b) /\ a <= b

fmaxf(a, b) == IF IsNaN(a) THEN b ELSE IF IsNaN(b) THEN a ELSE IF a > b THEN a ELSE b
fminf(a, b) == IF IsNaN(a) THEN b ELSE IF IsNaN(b) THEN a ELSE IF a < b THEN a ELSE b
fabsf(a)    == IF IsNaN(a) THEN NaN ELSE Abs(a)

\* (float)n for an int n.
IntToFloat(n) == Overflow(n * SCALE)

\* ------------------------------------------------------------------------
\* Bounds and inputs of the model
\* ------------------------------------------------------------------------

\* Number of simulation_step calls of the endless driver loop that are explored.
MaxSteps == 3

\* Values the command line can set each option to (the default included).
DtInputs      == {0, Milli(200), Milli(1000)}
SpeedSqInputs == {Milli(-500), Milli(500), PInf}
DampingInputs == {Milli(-10), Milli(10), Milli(1000), Milli(20000)}
LevelInputs   == {Milli(500), Milli(1000), Milli(1500), NaN}
TiltInputs    == {0, Milli(100), Milli(1100)}
SleepInputs   == {-1, 50}

\* Sizes get_terminal_size can report (columns, rows already reduced by one).
TermWidths  == {8, 10, 11}
TermHeights == {4, 5}

\* ------------------------------------------------------------------------
\* State
\* ------------------------------------------------------------------------

VARIABLES
    pc,                     \* position of main
    exit_code,              \* status main returned (-1 while running)
    G_DT, G_WAVE_SPEED_SQ, G_DAMPING,
    G_INITIAL_WATER_LEVEL, G_INITIAL_TILT, G_SLEEP_MS,
    warned,                 \* the instability warning was printed
    WIDTH, HEIGHT,
    heap,                   \* the four float grids allocate_grids obtains
    h, vel, next_h, next_vel,   \* pointers into heap (0 is NULL)
    obstacle,               \* the int grid
    screen,                 \* the text last written by display_grid
    steps, frames           \* completed simulation_step / display_grid calls

params == <<G_DT, G_WAVE_SPEED_SQ, G_DAMPING, G_INITIAL_WATER_LEVEL,
            G_INITIAL_TILT, G_SLEEP_MS>>
dims   == <<WIDTH, HEIGHT>>
grids  == <<heap, h, vel, next_h, next_vel, obstacle>>
vars   == <<pc, exit_code, params, warned, dims, grids, screen, steps, frames>>

Rows == 0 .. HEIGHT - 1
Cols == 0 .. WIDTH - 1

\* The current height and velocity fields, through the pointers.
CurH   == heap[h]
CurVel == heap[vel]

Init ==
    /\ pc = "parse"
    /\ exit_code = -1
    /\ G_DT = Milli(200)
    /\ G_WAVE_SPEED_SQ = Milli(500)
    /\ G_DAMPING = Milli(10)
    /\ G_INITIAL_WATER_LEVEL = Milli(500)
    /\ G_INITIAL_TILT = Milli(100)
    /\ G_SLEEP_MS = 50
    /\ warned = FALSE
    /\ WIDTH = 0
    /\ HEIGHT = 0
    /\ heap = << >>
    /\ h = 0 /\ vel = 0 /\ next_h = 0 /\ next_vel = 0
    /\ obstacle = << >>
    /\ screen = << >>
    /\ steps = 0
    /\ frames = 0

\* ------------------------------------------------------------------------
\* main: argument parsing and validation
\* ------------------------------------------------------------------------

\* Every option either absent or followed by a value atof/atoi converts.
ParseArgs ==
    /\ pc = "parse"
    /\ \E dt \in DtInputs, sp \in SpeedSqInputs, da \in DampingInputs,
          lv \in LevelInputs, ti \in TiltInputs, sl \in SleepInputs :
          /\ G_DT' = dt
          /\ G_WAVE_SPEED_SQ' = sp
          /\ G_DAMPING' = da
          /\ G_INITIAL_WATER_LEVEL' = lv
          /\ G_INITIAL_TILT' = ti
          /\ G_SLEEP_MS' = sl
    /\ pc' = "validate"
    /\ UNCHANGED <<exit_code, warned, dims, grids, screen, steps, frames>>

\* -h / --help: usage, return 0.
ParseHelp ==
    /\ pc = "parse"
    /\ pc' = "exit"
    /\ exit_code' = 0
    /\ UNCHANGED <<params, warned, dims, grids, screen, steps, frames>>

\* Unknown option, or an option without its value: usage, return 1.
ParseError ==
    /\ pc = "parse"
    /\ pc' = "exit"
    /\ exit_code' = 1
    /\ UNCHANGED <<params, warned, dims, grids, screen, steps, frames>>

\* The condition under which one of the six checks of main returns 1.
Rejected ==
    \/ FLe(G_DT, 0)
    \/ FLe(G_WAVE_SPEED_SQ, 0)
    \/ FLt(G_DAMPING, 0)
    \/ FLt(G_INITIAL_WATER_LEVEL, 0) \/ FGt(G_INITIAL_WATER_LEVEL, Milli(1000))
    \/ FLt(G_INITIAL_TILT, 0) \/ FGt(G_INITIAL_TILT, Milli(1000))
    \/ G_SLEEP_MS < 0

ValidateFail ==
    /\ pc = "validate"
    /\ Rejected
    /\ pc' = "exit"
    /\ exit_code' = 1
    /\ UNCHANGED <<params, warned, dims, grids, screen, steps, frames>>

\* stability_metric = G_WAVE_SPEED_SQ * G_DT * G_DT
StabilityMetric == FMul(FMul(G_WAVE_SPEED_SQ, G_DT), G_DT)

ValidateOk ==
    /\ pc = "validate"
    /\ ~Rejected
    /\ warned' = FGt(StabilityMetric, Milli(500))
    /\ pc' = "size"
    /\ UNCHANGED <<exit_code, params, dims, grids, screen, steps, frames>>

\* get_terminal_size, then the minimum usable size with its 20x10 fallback.
TerminalSize ==
    /\ pc = "size"
    /\ \E tw \in TermWidths, th \in TermHeights :
          IF tw < 10 \/ th < 5
          THEN /\ WIDTH'  = (IF tw < 10 THEN 20 ELSE tw)
               /\ HEIGHT' = (IF th < 5 THEN 10 ELSE th)
          ELSE /\ WIDTH' = tw
               /\ HEIGHT' = th
    /\ pc' = "alloc"
    /\ UNCHANGED <<exit_code, params, warned, grids, screen, steps, frames>>

\* ------------------------------------------------------------------------
\* allocate_grids
\* ------------------------------------------------------------------------

\* A grid of HEIGHT rows of WIDTH zeros, as calloc returns it.
ZeroGrid == [r \in Rows |-> [c \in Cols |-> 0]]

AllocOk ==
    /\ pc = "alloc"
    /\ heap' = [b \in 1 .. 4 |-> ZeroGrid]
    /\ h' = 1 /\ vel' = 2 /\ next_h' = 3 /\ next_vel' = 4
    /\ obstacle' = ZeroGrid
    /\ pc' = "init"
    /\ UNCHANGED <<exit_code, params, warned, dims, screen, steps, frames>>

\* malloc or calloc returned NULL: exit(EXIT_FAILURE).
AllocFail ==
    /\ pc = "alloc"
    /\ pc' = "exit"
    /\ exit_code' = 1
    /\ UNCHANGED <<params, warned, dims, grids, screen, steps, frames>>

\* ------------------------------------------------------------------------
\* initialize_simulation
\* ------------------------------------------------------------------------

\* Mutant of IsBorder: the test for the last column is missing.
IsBorder_NoRightWall(r, c) == r = 0 \/ r = HEIGHT - 1 \/ c = 0

\* r == 0 || r == HEIGHT - 1 || c == 0 || c == WIDTH - 1
IsBorder(r, c) == r = 0 \/ r = HEIGHT - 1 \/ c = 0 \/ c = WIDTH - 1

\* Mutant of TiltEffect: the ramp spans the interior columns 1 .. WIDTH-2 only.
TiltEffect_InteriorRamp(c) ==
    FMul(FMul(G_INITIAL_TILT,
              FSub(FDiv(IntToFloat(c - 1), FSub(IntToFloat(WIDTH), Milli(3000))),
                   Milli(500))),
         Milli(2000))

\* G_INITIAL_TILT * (((float)c / (WIDTH - 1.0f)) - 0.5f) * 2.0f
TiltEffect(c) ==
    FMul(FMul(G_INITIAL_TILT,
              FSub(FDiv(IntToFloat(c), FSub(IntToFloat(WIDTH), Milli(1000))),
                   Milli(500))),
         Milli(2000))

\* Mutant of Clamp01: the upper clamp is missing.
Clamp01_LowerOnly(x) == fmaxf(0, x)

\* x = fmaxf(0.0f, x); x = fminf(1.0f, x);
Clamp01(x) == fminf(Milli(1000), fmaxf(0, x))

\* The height the double loop stores in h[r][c].
InitialHeight(r, c) ==
    IF IsBorder(r, c) THEN 0
    ELSE Clamp01(FAdd(G_INITIAL_WATER_LEVEL, TiltEffect(c)))

\* The value obstacle[r][c] receives.
InitialObstacle(r, c) == IF IsBorder(r, c) THEN 1 ELSE 0

\* fminf(1.0f, G_INITIAL_WATER_LEVEL + 0.4f)
BumpHeight == fminf(Milli(1000), FAdd(G_INITIAL_WATER_LEVEL, Milli(400)))

\* fabsf(G_INITIAL_TILT) < 0.001f && HEIGHT > 2 && WIDTH > 2
NoTilt == FLt(fabsf(G_INITIAL_TILT), Milli(1)) /\ HEIGHT > 2 /\ WIDTH > 2

\* The height field initialize_simulation leaves in h: the double loop, then
\* the central disturbance.
InitialField ==
    LET base == [r \in Rows |-> [c \in Cols |-> InitialHeight(r, c)]]
        dr   == HEIGHT \div 2
        dc   == WIDTH \div 2
    IN  IF NoTilt /\ InitialObstacle(dr, dc) = 0
        THEN [base EXCEPT ![dr][dc] = BumpHeight]
        ELSE base

InitializeSimulation ==
    /\ pc = "init"
    /\ obstacle' = [r \in Rows |-> [c \in Cols |-> InitialObstacle(r, c)]]
    /\ heap' = [heap EXCEPT ![h] = InitialField, ![vel] = ZeroGrid]
    /\ pc' = "step"
    /\ UNCHANGED <<exit_code, params, warned, dims, h, vel, next_h, next_vel,
                   screen, steps, frames>>

\* ------------------------------------------------------------------------
\* simulation_step
\* ------------------------------------------------------------------------

\* Mutant of ReadH: the cell loop reads the buffer it is writing (an update in
\* place instead of a double buffer).
ReadH_FromNext(hp, r, c) == hp[next_h][r][c]

\* A read of h[r][c] / vel[r][c] in the cell loop, in the heap state hp.
ReadH(hp, r, c)   == hp[h][r][c]
ReadVel(hp, r, c) == hp[vel][r][c]

\* Mutant of NeighbourH: a wall neighbour contributes its own height (an
\* absorbing wall) instead of the centre's height.
NeighbourH_NoReflect(hp, r, c, nr, nc) == hp[h][nr][nc]

\* The height used for the in-range neighbour (nr, nc) of cell (r, c):
\* its own height, or the centre's height when it is an obstacle.
NeighbourH(hp, r, c, nr, nc) ==
    IF obstacle[nr][nc] = 0 THEN ReadH(hp, nr, nc) ELSE ReadH(hp, r, c)

\* h_up + h_down + h_left + h_right - 4.0f * h[r][c]
Laplacian(hp, r, c) ==
    LET h_up    == IF r > 0 THEN NeighbourH(hp, r, c, r - 1, c) ELSE ReadH(hp, r, c)
        h_down  == IF r < HEIGHT - 1 THEN NeighbourH(hp, r, c, r + 1, c) ELSE ReadH(hp, r, c)
        h_left  == IF c > 0 THEN NeighbourH(hp, r, c, r, c - 1) ELSE ReadH(hp, r, c)
        h_right == IF c < WIDTH - 1 THEN NeighbourH(hp, r, c, r, c + 1) ELSE ReadH(hp, r, c)
    IN  FSub(FAdd(FAdd(FAdd(h_up, h_down), h_left), h_right),
             FMul(Milli(4000), ReadH(hp, r, c)))

\* current_vel after  current_vel += (G_WAVE_SPEED_SQ * laplacian_h) * G_DT
UndampedVel(hp, r, c) ==
    FAdd(ReadVel(hp, r, c), FMul(FMul(G_WAVE_SPEED_SQ, Laplacian(hp, r, c)), G_DT))

\* Mutant of DampingFactor: the sign of the damping term is wrong.
DampingFactor_Plus == FAdd(Milli(1000), FMul(G_DAMPING, G_DT))

\* (1.0f - G_DAMPING * G_DT)
DampingFactor == FSub(Milli(1000), FMul(G_DAMPING, G_DT))

\* The value stored in next_vel[r][c].
NextVel(hp, r, c) == FMul(UndampedVel(hp, r, c), DampingFactor)

\* The value stored in next_h[r][c].
NextH(hp, r, c) == Clamp01(FAdd(ReadH(hp, r, c), FMul(NextVel(hp, r, c), G_DT)))

\* One iteration of the cell loop: the heap after cell (r, c) is processed.
ProcessCell(hp, r, c) ==
    IF obstacle[r][c] # 0
    THEN [hp EXCEPT ![next_h][r][c] = 0, ![next_vel][r][c] = 0]
    ELSE [hp EXCEPT ![next_vel][r][c] = NextVel(hp, r, c),
                    ![next_h][r][c] = NextH(hp, r, c)]

\* The heap after the cells order[lo] .. order[hi] are processed one after the
\* other, starting from the heap hp (the first half is evaluated to a value
\* before the second half starts from it).
RECURSIVE StepCells(_, _, _, _)
StepCells(hp, order, lo, hi) ==
    IF lo > hi THEN hp
    ELSE IF lo = hi THEN ProcessCell(hp, order[lo][1], order[lo][2])
    ELSE LET mid == (lo + hi) \div 2
         IN  CHOOSE after \in {StepCells(first, order, mid + 1, hi) :
                                 first \in {StepCells(hp, order, lo, mid)}} : TRUE

\* for r in 0..HEIGHT-1, for c in 0..WIDTH-1
RowMajor == [i \in 1 .. HEIGHT * WIDTH |-> <<(i - 1) \div WIDTH, (i - 1) % WIDTH>>]

\* Mutant of LoopNext: after the sleep the loop renders again without stepping.
LoopNext_RenderAgain(p) ==
    IF p = "step" THEN "display" ELSE IF p = "display" THEN "sleep" ELSE "display"

\* The driver loop: while (1) { simulation_step(); display_grid(); SLEEP_MS(); }
LoopNext(p) ==
    IF p = "step" THEN "display" ELSE IF p = "display" THEN "sleep" ELSE "step"

SimulationStep ==
    /\ pc = "step"
    /\ steps < MaxSteps
    /\ heap' = StepCells(heap, RowMajor, 1, HEIGHT * WIDTH)
    /\ h' = next_h /\ next_h' = h
    /\ vel' = next_vel /\ next_vel' = vel
    /\ steps' = steps + 1
    /\ pc' = LoopNext("step")
    /\ UNCHANGED <<exit_code, params, warned, dims, obstacle, screen, frames>>

\* ------------------------------------------------------------------------
\* height_to_char, display_grid
\* ------------------------------------------------------------------------

\* Mutant of height_to_char: the thresholds are inclusive.
height_to_char_Inclusive(current_h) ==
    IF FLe(Milli(800), current_h) THEN "@"
    ELSE IF FLe(Milli(650), current_h) THEN "#"
    ELSE IF FLe(Milli(500), current_h) THEN "*"
    ELSE IF FLe(Milli(350), current_h) THEN "="
    ELSE IF FLe(Milli(200), current_h) THEN "-"
    ELSE IF FLe(Milli(50), current_h) THEN "."
    ELSE " "

height_to_char(current_h) ==
    IF FGt(current_h, Milli(800)) THEN "@"
    ELSE IF FGt(current_h, Milli(650)) THEN "#"
    ELSE IF FGt(current_h, Milli(500)) THEN "*"
    ELSE IF FGt(current_h, Milli(350)) THEN "="
    ELSE IF FGt(current_h, Milli(200)) THEN "-"
    ELSE IF FGt(current_h, Milli(50)) THEN "."
    ELSE " "

\* The character display_grid stores for cell (r, c).
CellChar(r, c) ==
    IF obstacle[r][c] # 0 THEN "X" ELSE height_to_char(heap[h][r][c])

\* screen_buffer: per row WIDTH characters and a newline.
ScreenBuffer ==
    [i \in 1 .. (WIDTH + 1) * HEIGHT |->
        LET r == (i - 1) \div (WIDTH + 1)
            c == (i - 1) % (WIDTH + 1)
        IN  IF c = WIDTH THEN "\n" ELSE CellChar(r, c)]

DisplayGrid ==
    /\ pc = "display"
    /\ screen' = ScreenBuffer
    /\ frames' = frames + 1
    /\ pc' = LoopNext("display")
    /\ UNCHANGED <<exit_code, params, warned, dims, grids, steps>>

\* SLEEP_MS(G_SLEEP_MS), then the next iteration of while (1).
Sleep ==
    /\ pc = "sleep"
    /\ pc' = LoopNext("sleep")
    /\ UNCHANGED <<exit_code, params, warned, dims, grids, screen, steps, frames>>

\* ------------------------------------------------------------------------
\* Specification
\* ------------------------------------------------------------------------

Next ==
    \/ ParseArgs
    \/ ParseHelp
    \/ ParseError
    \/ ValidateFail
    \/ ValidateOk
    \/ TerminalSize
    \/ AllocOk
    \/ AllocFail
    \/ InitializeSimulation
    \/ SimulationStep
    \/ DisplayGrid
    \/ Sleep

Spec == Init /\ [][Next]_vars

\* ------------------------------------------------------------------------
\* Properties
\* ------------------------------------------------------------------------

\* initialize_simulation has run: the grids hold a simulation state.
GridReady == pc \in {"step", "display", "sleep"}

\* simulation_step is the step being taken.
StepFires == pc = "step" /\ pc' = "display"

\* The parameter constraints the specification states.
Validated ==
    /\ FGt(G_DT, 0)
    /\ FGt(G_WAVE_SPEED_SQ, 0)
    /\ FLe(0, G_DAMPING)
    /\ FLe(0, G_INITIAL_WATER_LEVEL) /\ FLe(G_INITIAL_WATER_LEVEL, Milli(1000))
    /\ FLe(0, G_INITIAL_TILT) /\ FLe(G_INITIAL_TILT, Milli(1000))

WaterCells == {cell \in Rows \X Cols : obstacle[cell[1]][cell[2]] = 0}

\* C1: after initialize_simulation and after any number of simulation_step
\* calls, every border cell is an obstacle with height 0 and velocity 0 in the
\* current buffers.
C1_BoundaryInvariant ==
    GridReady =>
        \A r \in Rows, c \in Cols :
            (r = 0 \/ r = HEIGHT - 1 \/ c = 0 \/ c = WIDTH - 1) =>
                /\ obstacle[r][c] # 0
                /\ CurH[r][c] = 0
                /\ CurVel[r][c] = 0

\* C1 witness: two steps were taken, water is moving, and the walls are at rest.
C1_Witness ==
    /\ pc = "display"
    /\ steps >= 2
    /\ \E cell \in WaterCells : CurVel[cell[1]][cell[2]] # 0
    /\ \A c \in Cols : obstacle[0][c] # 0 /\ CurH[0][c] = 0 /\ CurVel[0][c] = 0
    /\ \A r \in Rows : obstacle[r][WIDTH - 1] # 0 /\ CurH[r][WIDTH - 1] = 0

\* C2: for validated parameters every non-obstacle cell has 0 <= h <= 1 after
\* initialize_simulation and after every simulation_step, whatever the
\* velocities are.
C2_ClampingInvariant ==
    (GridReady /\ Validated) =>
        \A cell \in WaterCells :
            /\ FLe(0, CurH[cell[1]][cell[2]])
            /\ FLe(CurH[cell[1]][cell[2]], Milli(1000))

\* C2 witness: a step has produced an infinite velocity in a water cell whose
\* height is still within [0, 1].
C2_Witness ==
    /\ GridReady /\ Validated
    /\ steps >= 1
    /\ \E cell \in WaterCells :
          /\ IsInf(CurVel[cell[1]][cell[2]])
          /\ FLe(0, CurH[cell[1]][cell[2]])
          /\ FLe(CurH[cell[1]][cell[2]], Milli(1000))

\* Visitation orders of the cell loop other than the row-major one of the code.
ReverseRowMajor ==
    [i \in 1 .. HEIGHT * WIDTH |-> RowMajor[HEIGHT * WIDTH + 1 - i]]
ColumnMajor ==
    [i \in 1 .. HEIGHT * WIDTH |-> <<(i - 1) % HEIGHT, (i - 1) \div HEIGHT>>]
\* Every second cell first, then the cells skipped.
Interleaved ==
    LET n    == HEIGHT * WIDTH
        half == (n + 1) \div 2
    IN  [i \in 1 .. n |-> IF i <= half THEN RowMajor[2 * i - 1]
                                        ELSE RowMajor[2 * (i - half)]]
OtherOrders == {ReverseRowMajor, ColumnMajor, Interleaved}

\* C3: a step reads only the pre-step current buffers and writes only the next
\* buffers, so visiting the cells in another order gives, after the swap,
\* exactly the fields h and vel that the row-major order of the code gives.
C3_OrderIndependence ==
    [][StepFires =>
          \A order \in OtherOrders :
              LET after == StepCells(heap, order, 1, HEIGHT * WIDTH)
              IN  /\ heap'[h'] = after[next_h]
                  /\ heap'[vel'] = after[next_vel]]_vars

\* C3 witness: a step was taken from a field that is not uniform, so that cells
\* read neighbours whose values differ from their own.
C3_Witness ==
    /\ pc = "display"
    /\ steps >= 2
    /\ \E r \in Rows, c \in Cols :
          /\ c + 1 \in Cols
          /\ obstacle[r][c] = 0 /\ obstacle[r][c + 1] = 0
          /\ IsFinite(CurVel[r][c]) /\ IsFinite(CurVel[r][c + 1])
          /\ CurVel[r][c] # CurVel[r][c + 1]
          /\ CurH[r][c] # CurH[r][c + 1]

\* The grid is flat and at rest: the border cells are obstacles, all other cells
\* have one height L in [0, 1], and every velocity is zero.
FlatAtRest ==
    /\ GridReady
    /\ \A r \in Rows, c \in Cols :
          /\ (obstacle[r][c] # 0) = (r = 0 \/ r = HEIGHT - 1 \/ c = 0 \/ c = WIDTH - 1)
          /\ CurVel[r][c] = 0
          /\ obstacle[r][c] = 0 =>
                /\ CurH[r][c] = CurH[1][1]
                /\ FLe(0, CurH[r][c]) /\ FLe(CurH[r][c], Milli(1000))

\* simulation_step leaves the current h and vel fields as they were.
StepKeepsFields == heap'[h'] = heap[h] /\ heap'[vel'] = heap[vel]

\* C4 as claimed: from a flat grid at rest a step changes no h and no vel.
C4_Original == [][(StepFires /\ FlatAtRest) => StepKeepsFields]_vars

\* C4 amended: from a flat grid at rest a step changes no h and no vel, when
\* speed_sq, dt and damping*dt are finite (0 * infinity is NaN otherwise).
C4_FlatFixedPoint ==
    [][(/\ StepFires
        /\ FlatAtRest
        /\ IsFinite(G_WAVE_SPEED_SQ)
        /\ IsFinite(G_DT)
        /\ IsFinite(FMul(G_DAMPING, G_DT))) => StepKeepsFields]_vars

\* C4 witness: steps were taken with finite parameters from the flat field of
\* height 1.0, and the grid is still flat and at rest.
C4_Witness ==
    /\ pc = "display"
    /\ steps >= 2
    /\ FlatAtRest
    /\ CurH[1][1] = Milli(1000)
    /\ IsFinite(G_WAVE_SPEED_SQ) /\ IsFinite(G_DT) /\ IsFinite(FMul(G_DAMPING, G_DT))
    /\ FMul(G_DAMPING, G_DT) # Milli(1000)

\* C5: display_grid runs only after a simulation_step that wrote every cell of
\* the next buffers and swapped both pointer pairs; steps and renders strictly
\* alternate; a render writes none of the buffers and shows the current h.
C5_RenderAfterCompletedStep ==
    [][/\ (steps' # steps) =>
              /\ pc = "step" /\ pc' = "display"
              /\ steps = frames /\ steps' = steps + 1 /\ frames' = frames
              /\ h' = next_h /\ next_h' = h /\ vel' = next_vel /\ next_vel' = vel
              /\ \A r \in Rows, c \in Cols :
                    /\ heap'[h'][r][c] =
                          (IF obstacle[r][c] # 0 THEN 0 ELSE NextH(heap, r, c))
                    /\ heap'[vel'][r][c] =
                          (IF obstacle[r][c] # 0 THEN 0 ELSE NextVel(heap, r, c))
       /\ (frames' # frames \/ screen' # screen) =>
              /\ pc = "display"
              /\ steps = frames + 1 /\ frames' = frames + 1 /\ steps' = steps
              /\ UNCHANGED grids
              /\ screen' = ScreenBuffer
       /\ (pc = "display" /\ pc' # pc) => frames' = frames + 1]_vars

\* C5 witness: the second frame was rendered after the second step.
C5_Witness ==
    /\ pc = "sleep"
    /\ steps = 2 /\ frames = 2
    /\ Len(screen) = (WIDTH + 1) * HEIGHT

\* The state initialize_simulation returns in.
JustInitialized == pc = "step" /\ steps = 0

\* fminf(1, fmaxf(0, x)), written out.
Clamped(x) == fminf(Milli(1000), fmaxf(0, x))

ExactRamp(c) ==
    LET x  == G_INITIAL_WATER_LEVEL * (WIDTH - 1) + G_INITIAL_TILT * (2 * c - (WIDTH - 1))
        hi == Milli(1000) * (WIDTH - 1)
    IN  IF x < 0 THEN 0 ELSE IF x > hi THEN hi ELSE x

C7_DisturbanceGuaranteesMotion ==
    (Validated /\ FLt(fabsf(G_INITIAL_TILT), Milli(1)) /\ WIDTH > 2 /\ HEIGHT > 2) =>
        /\ JustInitialized =>
              \E a \in WaterCells, b \in WaterCells :
                  CurH[a[1]][a[2]] # CurH[b[1]][b[2]]
        /\ (pc = "display" /\ steps = 1) =>
              \E a \in WaterCells :
                  \/ CurH[a[1]][a[2]] # heap[next_h][a[1]][a[2]]
                  \/ CurVel[a[1]][a[2]] # heap[next_vel][a[1]][a[2]]

\* One of the six conditions the claim lists holds of the parsed parameters.
ConstraintBroken ==
    \/ ~FGt(G_DT, 0)
    \/ ~FGt(G_WAVE_SPEED_SQ, 0)
    \/ ~FLe(0, G_DAMPING)
    \/ ~(FLe(0, G_INITIAL_WATER_LEVEL) /\ FLe(G_INITIAL_WATER_LEVEL, Milli(1000)))
    \/ ~(FLe(0, G_INITIAL_TILT) /\ FLe(G_INITIAL_TILT, Milli(1000)))
    \/ G_SLEEP_MS < 0

\* C8 as claimed: once validation is over, a broken constraint means main has
\* returned 1 without allocating, initialising, stepping or rendering; the
\* simulation is only ever entered with all six constraints satisfied.
C8_ConfigurationErrorsStop ==
    /\ (pc \notin {"parse", "validate"} /\ ConstraintBroken) =>
          /\ pc = "exit" /\ exit_code = 1
          /\ heap = << >> /\ h = 0
          /\ steps = 0 /\ frames = 0 /\ screen = << >>
    /\ pc \in {"alloc", "init", "step", "display", "sleep"} => ~ConstraintBroken

\* The glyph the table of the specification gives a height x.
TableGlyph(x) ==
    CASE x > Milli(800) -> "@"
      [] x <= Milli(800) /\ x > Milli(650) -> "#"
      [] x <= Milli(650) /\ x > Milli(500) -> "*"
      [] x <= Milli(500) /\ x > Milli(350) -> "="
      [] x <= Milli(350) /\ x > Milli(200) -> "-"
      [] x <= Milli(200) /\ x > Milli(50) -> "."
      [] x <= Milli(50) -> " "

\* C9: the frame display_grid writes has HEIGHT rows of WIDTH glyphs and a
\* newline; an obstacle cell shows 'X', a water cell the glyph of the strict
\* threshold table (a height equal to a threshold takes the lower glyph).
C9_GlyphMapping ==
    (pc = "sleep") =>
        /\ Len(screen) = (WIDTH + 1) * HEIGHT
        /\ \A r \in Rows :
              /\ screen[r * (WIDTH + 1) + WIDTH + 1] = "\n"
              /\ \A c \in Cols :
                    screen[r * (WIDTH + 1) + c + 1] =
                        (IF obstacle[r][c] # 0 THEN "X" ELSE TableGlyph(CurH[r][c]))

\* C9 witness: a rendered frame with a wall, a water cell exactly at the
\* threshold 0.50 shown as '=', and a water cell above 0.80 shown as '@'.
C9_Witness ==
    /\ pc = "sleep"
    /\ screen[1] = "X"
    /\ \E a \in WaterCells :
          /\ CurH[a[1]][a[2]] = Milli(500)
          /\ screen[a[1] * (WIDTH + 1) + a[2] + 1] = "="
    /\ \E a \in WaterCells :
          /\ CurH[a[1]][a[2]] > Milli(800)
          /\ screen[a[1] * (WIDTH + 1) + a[2] + 1] = "@"

\* C10 as claimed, read generously: for damping >= 0 and dt > 0 the velocity a
\* step stores in a water cell never has the sign opposite to the undamped
\* velocity v + speed_sq * L * dt and never a larger magnitude (a stored zero is
\* accepted, and cells whose undamped velocity is not finite are left aside).
C10_Original ==
    [][(StepFires /\ FGt(G_DT, 0) /\ FLe(0, G_DAMPING)) =>
          \A a \in WaterCells :
              LET u == UndampedVel(heap, a[1], a[2])
                  d == heap'[vel'][a[1]][a[2]]
              IN  IsFinite(u) =>
                      /\ ~IsNaN(d)
                      /\ Sign(d) * Sign(u) >= 0
                      /\ Abs(d) <= Abs(u)]_vars

\* C10 amended: for damping >= 0, dt > 0 with damping*dt <= 1 and a finite
\* undamped velocity, the stored velocity never has the opposite sign and
\* never a larger magnitude than the undamped one (it may be zero).
C10_DampingReduces ==
    [][(/\ StepFires
        /\ FGt(G_DT, 0) /\ FLe(0, G_DAMPING)
        /\ FLe(FMul(G_DAMPING, G_DT), Milli(1000))) =>
          \A a \in WaterCells :
              LET u == UndampedVel(heap, a[1], a[2])
                  d == heap'[vel'][a[1]][a[2]]
              IN  IsFinite(u) =>
                      /\ IsFinite(d)
                      /\ Sign(d) * Sign(u) >= 0
                      /\ Abs(d) <= Abs(u)]_vars

\* The heap as the last step found it: after the swap the next buffers hold
\* the fields the step read.
PreStepHeap == [heap EXCEPT ![h] = heap[next_h], ![vel] = heap[next_vel]]

\* C10 witness: a step with 0 < damping*dt < 1 stored a velocity that is
\* smaller in magnitude than, and of the sign of, a finite undamped velocity.
C10_Witness ==
    /\ pc = "display"
    /\ steps >= 1
    /\ FGt(G_DT, 0) /\ FGt(G_DAMPING, 0)
    /\ FLt(FMul(G_DAMPING, G_DT), Milli(1000))
    /\ \E a \in WaterCells :
          LET u == UndampedVel(PreStepHeap, a[1], a[2])
              d == CurVel[a[1]][a[2]]
          IN  /\ IsFinite(u) /\ u # 0
              /\ Sign(d) = Sign(u)
              /\ Abs(d) < Abs(u)

====
